---- MODULE Spec2Model ----
(***************************************************************************)
(* LM_LSTM_CRF (model/lm_lstm_crf.py): the module structure built by       *)
(* __init__, the order in which forward applies its sub-modules, the shape *)
(* of what it returns, the word-embedding table replaced by                *)
(* load_pretrained_word_embedding and the initial state the character      *)
(* level LSTMs are run from in the two language-model passes.              *)
(*                                                                         *)
(* A tensor is modelled by its shape, a sub-module by its attribute name   *)
(* (and its index inside a ModuleList), and the state of a character-level *)
(* LSTM by the state it started from and the number of steps it has run.   *)
(***************************************************************************)
EXTENDS Integers, Sequences, FiniteSets, TLC

\* ---------------------------------------------------------------- bounds
MaxFileNum   == 2   \* file_num ranges over 1..MaxFileNum
MaxLayers    == 2   \* n_layers ranges over 0..MaxLayers
MaxSeqLen    == 2   \* word_seq_len of an input
MaxBatch     == 1   \* batch size of an input
MaxCharLen   == 1   \* char_seq_len of an input
MaxHidden    == 1   \* the hidden states a caller may pass are 1..MaxHidden
VocabSize    == 2   \* the vocab_size the model is built with
EmbeddingDim == 2   \* the embedding_dim the model is built with
TagsetSize   == 3   \* the tagset_size the model is built with

\* ------------------------------------------------------ program constants
InDocWords == 2
ZeroState  == 0
None       == -1

VARIABLES
    file_num,               \* constructor argument file_num
    large_CRF,              \* constructor argument large_CRF
    if_highway,             \* self.if_highway
    word_level_attention,   \* self.word_level_attention
    word_dim,               \* self.word_dim  (embedding_dim)
    word_size,              \* self.word_size (vocab_size)
    tagset_size,            \* self.tagset_size
    crflist,                \* self.crflist     (nn.ModuleList)
    layer_stack,            \* self.layer_stack (nn.ModuleList)
    word_embeds,            \* self.word_embeds.weight
    batch_size,             \* self.batch_size
    word_seq_length,        \* self.word_seq_length
    call,                   \* the last call made on the model and its arguments
    applied,                \* the sub-modules the last call applied, in order
    ret,                    \* the tuple of values the last call returned
    raised,                 \* the exception the last call raised, or "None"
    lstm                    \* the char-level LSTM run made by the last call

vars == << file_num, large_CRF, if_highway, word_level_attention, word_dim,
           word_size, tagset_size, crflist, layer_stack, word_embeds,
           batch_size, word_seq_length, call, applied, ret, raised, lstm >>

params == << file_num, large_CRF, if_highway, word_level_attention, word_dim,
             word_size, tagset_size, crflist, layer_stack >>

\* ------------------------------------------------------------ sub-modules
\* a module held directly in an attribute of the model
Module(name) == [m |-> name, i |-> None]

\* the k-th (0-based) member of a ModuleList
Member(name, k) == [m |-> name, i |-> k]

\* for i in range(file_num): crflist.append(CRF_L(...) or CRF_S(...))
BuildCrfList(n, large) ==
    [k \in 1..n |-> Member(IF large THEN "CRF_L" ELSE "CRF_S", k - 1)]

\* nn.ModuleList([EncoderLayer(...) for _ in range(n_layers)])
BuildLayerStack(n) == [k \in 1..n |-> Member("EncoderLayer", k - 1)]

\* a tensor: its shape and where its values come from
Tensor(rows, cols, src) == [rows |-> rows, cols |-> cols, src |-> src]

\* one returned value
Value(kind, shape) == [kind |-> kind, shape |-> shape]

\* the record of a call: the method and the arguments the model keeps track of
NoCall == [op |-> "new", file_no |-> None, hidden |-> None,
           rows |-> 0, cols |-> 0]

\* no char-level LSTM run
NoRun == [h0 |-> None, steps |-> 0]

Init ==
    /\ file_num \in 1..MaxFileNum
    /\ large_CRF \in BOOLEAN
    /\ if_highway \in BOOLEAN
    /\ word_level_attention \in BOOLEAN
    /\ word_dim = EmbeddingDim
    /\ word_size = VocabSize
    /\ tagset_size = TagsetSize
    /\ crflist = BuildCrfList(file_num, large_CRF)
    /\ \E n_layers \in 0..MaxLayers : layer_stack = BuildLayerStack(n_layers)
    /\ word_embeds = Tensor(word_size, word_dim, "init")
    /\ batch_size = 1
    /\ word_seq_length = 1
    /\ call = NoCall
    /\ applied = << >>
    /\ ret = << >>
    /\ raised = "None"
    /\ lstm = NoRun

\* ------------------------------------------------------------------ tensors
\* tensor.view(d1, d2, d3, d4): the shape asked for
View(d1, d2, d3, d4) == << d1, d2, d3, d4 >>

\* tensor.permute(perm): dimension k of the result is dimension perm[k] (0-based)
Permute(shape, perm) == [k \in 1..Len(perm) |-> shape[perm[k] + 1]]

\* nn.LSTM called on an input of char_len steps with initial state hx: it runs
\* from hx, or from the zero state when no hx is given
LSTMRun(char_len, hx) ==
    [h0 |-> IF hx = None THEN ZeroState ELSE hx, steps |-> char_len]

\* the hidden arguments a caller may pass
HiddenArgs == {None} \cup 1..MaxHidden

\* ----------------------------------------------------- the forward pipeline
\* char embedding, both char LSTMs, the gather of the word-boundary outputs and
\* the optional highway projection (forward, up to d_char_out)
CharEncoder(highway) ==
    << Module("char_embeds"), Module("char_embeds"),
       Module("dropout"), Module("dropout"),
       Module("forw_char_lstm"), Module("back_char_lstm"),
       Module("dropout") >>
    \o (IF highway THEN << Module("fb2char"), Module("dropout") >> ELSE << >>)

\* word embedding lookup and its dropout (forward, word_emb and d_word_emb)
WordEmbedding == << Module("word_embeds"), Module("dropout") >>

\* the word-level encoder: self-attention stack or bidirectional LSTM
WordEncoderBug(attention, stack) ==
    IF attention
    THEN << Module("position_enc") >> \o stack
         \o << Module("fc"), Module("word_lstm"), Module("dropout") >>
    ELSE << Module("word_lstm"), Module("dropout") >>

WordEncoder(attention, stack) ==
    IF attention
    THEN << Module("position_enc") >> \o stack \o << Module("fc") >>
    ELSE << Module("word_lstm"), Module("dropout") >>

\* self.crflist[file_no]
SelectHeadBug(list, file_no) == list[1]

SelectHead(list, file_no) == list[file_no + 1]

\* the modules of one language-model pass, in order
LMPass(char_lstm, to_word, highway) ==
    << Module("char_embeds"), Module("dropout"), Module(char_lstm),
       Module("dropout") >>
    \o (IF highway THEN << Module(to_word), Module("dropout") >> ELSE << >>)
    \o << Module("word_pre_train_out") >>

\* the initial state a language-model pass called with the argument hidden
\* hands to its char-level LSTM: the LSTM is called with the input alone
InitialState(hidden) == None

\* ------------------------------------------------------------------ actions
\* set_batch_size(bsize)
SetBatchSize ==
    \E bsize \in 1..MaxBatch :
        /\ batch_size' = bsize
        /\ call' = [NoCall EXCEPT !.op = "set_batch_size"]
        /\ applied' = << >>
        /\ ret' = << >>
        /\ raised' = "None"
        /\ lstm' = NoRun
        /\ UNCHANGED << params, word_embeds, word_seq_length >>

\* load_pretrained_word_embedding(pre_word_embeddings), the argument of shape
\* (rows, cols)
LoadPretrainedWordEmbedding ==
    \E rows \in 1..(VocabSize + 1), cols \in 1..(EmbeddingDim + 1) :
        /\ call' = [NoCall EXCEPT !.op = "load_pretrained_word_embedding",
                                  !.rows = rows, !.cols = cols]
        /\ IF cols = word_dim
           THEN /\ word_embeds' = Tensor(rows, cols, "pretrained")
                /\ raised' = "None"
           ELSE /\ word_embeds' = word_embeds
                /\ raised' = "AssertionError"
        /\ applied' = << >>
        /\ ret' = << >>
        /\ lstm' = NoRun
        /\ UNCHANGED << params, batch_size, word_seq_length >>

\* the body shared by word_pre_train_forward and word_pre_train_backward;
\* sentence is of size (char_len, 1) and position of size (n_words, 1)
WordPreTrain(op, char_lstm, to_word) ==
    \E char_len \in 1..MaxCharLen, hidden \in HiddenArgs :
        \E n_words \in 1..char_len :
            /\ call' = [NoCall EXCEPT !.op = op, !.hidden = hidden]
            /\ lstm' = LSTMRun(char_len, InitialState(hidden))
            /\ applied' = LMPass(char_lstm, to_word, if_highway)
            /\ ret' = << Value("pre_score", << n_words, InDocWords >>),
                         Value("hidden", << >>) >>
            /\ raised' = "None"
            /\ UNCHANGED << params, word_embeds, batch_size, word_seq_length >>

\* word_pre_train_forward(sentence, position, hidden)
WordPreTrainForward ==
    WordPreTrain("word_pre_train_forward", "forw_char_lstm", "forw2word")

\* word_pre_train_backward(sentence, position, hidden)
WordPreTrainBackward ==
    WordPreTrain("word_pre_train_backward", "back_char_lstm", "back2word")

\* forward(forw_sentence, forw_position, back_sentence, back_position,
\*         word_seq, word_pos, word_dict, file_no, hidden)
\* (seq, bsz) is the size of forw_position, max_word the largest index in
\* word_seq
Forward ==
    \E seq \in 1..MaxSeqLen, bsz \in 1..MaxBatch,
       max_word \in 0..(word_size - 1), file_no \in 0..file_num :
        LET chars == CharEncoder(if_highway)
            enc   == chars \o WordEmbedding
                     \o WordEncoder(word_level_attention, layer_stack)
        IN  /\ call' = [NoCall EXCEPT !.op = "forward", !.file_no = file_no]
            /\ word_seq_length' = seq
            /\ batch_size' = bsz
            /\ IF max_word >= word_embeds.rows
               THEN \* the lookup in the word table fails
                    /\ applied' = chars \o << Module("word_embeds") >>
                    /\ ret' = << >>
                    /\ raised' = "IndexError"
               ELSE IF file_no >= Len(crflist)
               THEN \* self.crflist[file_no] fails
                    /\ applied' = enc
                    /\ ret' = << >>
                    /\ raised' = "IndexError"
               ELSE /\ applied' = Append(enc, SelectHead(crflist, file_no))
                    /\ ret' = << Value("crf_out",
                                       Permute(View(bsz, seq, tagset_size,
                                                    tagset_size),
                                               << 1, 0, 2, 3 >>)) >>
                    /\ raised' = "None"
            /\ lstm' = NoRun
            /\ UNCHANGED << params, word_embeds >>

Next ==
    \/ SetBatchSize
    \/ LoadPretrainedWordEmbedding
    \/ WordPreTrainForward
    \/ WordPreTrainBackward
    \/ Forward

Spec == Init /\ [][Next]_vars

\* ------------------------------------------------------------------ claims
HeadKinds == {"CRF_L", "CRF_S"}
WordLevelModules == {"position_enc", "EncoderLayer", "fc", "word_lstm"}
LMOps == {"word_pre_train_forward", "word_pre_train_backward"}

IsHead(e) == e.m \in HeadKinds
IsEncoder(e) == e.m \notin HeadKinds
IsWordLevel(e) == e.m \in WordLevelModules

\* the CRF heads a call applied, and the other modules it applied
Heads(trace) == SelectSeq(trace, IsHead)
Encoders(trace) == SelectSeq(trace, IsEncoder)
\* the word-level encoder modules a call applied
WordLevel(trace) == SelectSeq(trace, IsWordLevel)

\* the last call was op and it returned
Returned(op) == call.op = op /\ raised = "None"

\* C1, the state part: crflist holds exactly file_num heads, pairwise distinct;
\* no forward call applies a head other than crflist[file_no] or more than one
\* head; a forward call with 0 <= file_no < file_num that returns has applied
\* exactly one head, crflist[file_no], and applied it last, after the encoders.
C1_OneHead ==
    /\ Len(crflist) = file_num
    /\ \A a, b \in 1..Len(crflist) : crflist[a] = crflist[b] => a = b
    /\ call.op = "forward" =>
          /\ Len(Heads(applied)) <= 1
          /\ \A k \in 1..Len(applied) :
                IsHead(applied[k]) =>
                    /\ call.file_no + 1 \in 1..Len(crflist)
                    /\ applied[k] = crflist[call.file_no + 1]
          /\ (raised = "None" /\ call.file_no \in 0..(file_num - 1)) =>
                /\ Heads(applied) = << crflist[call.file_no + 1] >>
                /\ applied[Len(applied)] = crflist[call.file_no + 1]

\* C1, the step part: two forward calls that return, one after the other, apply
\* the same encoder modules in the same order whatever their file_no.
C1_SharedEncoders ==
    (Returned("forward") /\ Returned("forward")')
        => Encoders(applied') = Encoders(applied)

\* C1: a model built with file_num corpora holds exactly file_num CRF heads;
\* every forward call with 0 <= file_no < file_num applies exactly one head,
\* crflist[file_no], to the encoder output, no other head, and the character
\* and word level encoders before it are the same modules for every file_no.
C1_HeadPerCorpus == [] C1_OneHead /\ [][C1_SharedEncoders]_vars

\* C1 witness: a forward call on a model of several corpora returned after
\* applying a head other than the first one.
C1_Witness ==
    /\ Returned("forward")
    /\ file_num >= 2
    /\ call.file_no = 1
    /\ applied[Len(applied)] = crflist[2]

\* C2: in every forward call the self-attention stack and the word-level LSTM
\* exclude each other. With word_level_attention the call never applies
\* word_lstm and, when it returns, has applied position_enc, every layer of
\* layer_stack in order, then fc; without it the call never applies
\* position_enc, a layer of layer_stack or fc and, when it returns, has applied
\* word_lstm, once.
C2_ExclusiveWordEncoder ==
    call.op = "forward" =>
        IF word_level_attention
        THEN /\ \A k \in 1..Len(applied) : applied[k] # Module("word_lstm")
             /\ raised = "None" =>
                    WordLevel(applied)
                        = << Module("position_enc") >> \o layer_stack
                          \o << Module("fc") >>
        ELSE /\ \A k \in 1..Len(applied) :
                    applied[k].m \notin {"position_enc", "EncoderLayer", "fc"}
             /\ raised = "None" =>
                    WordLevel(applied) = << Module("word_lstm") >>

\* C2 witness: a forward call of a model with word-level attention and two
\* attention layers returned.
C2_Witness ==
    /\ Returned("forward")
    /\ word_level_attention
    /\ Len(layer_stack) = 2
    /\ Len(WordLevel(applied)) = 4

\* C3: a forward call that returns has returned the pair (crf output, hidden),
\* the crf output of shape (word_seq_len, batch_size, tag_size, tag_size).
C3_ReturnsPair ==
    Returned("forward") =>
        /\ Len(ret) = 2
        /\ ret[1] = Value("crf_out", << word_seq_length, batch_size,
                                        tagset_size, tagset_size >>)
        /\ ret[2].kind = "hidden"

\* C4: load_pretrained_word_embedding installs the supplied matrix exactly when
\* its shape is (word_size, word_dim); for any other shape it raises an
\* assertion error.
C4_LoadChecksShape ==
    call.op = "load_pretrained_word_embedding" =>
        IF << call.rows, call.cols >> = << word_size, word_dim >>
        THEN /\ raised = "None"
             /\ word_embeds = Tensor(call.rows, call.cols, "pretrained")
        ELSE raised = "AssertionError"

\* C5: the char-level LSTM of a language-model pass runs from the hidden
\* argument, and from the zero state only when hidden is None.
C5_HiddenIsInitialState ==
    call.op \in LMOps =>
        lstm.h0 = (IF call.hidden = None THEN ZeroState ELSE call.hidden)

====
